---- MODULE Spec2Model ----
(***************************************************************************)
(* Model of the selection toolkit of src/by/by/__init__.py:                *)
(*   - gen_of_close_pairs_from_iterables / _close_pairs_helper /           *)
(*     _first_pair_within_radius   (greedy close-pair generation)          *)
(*   - sublist_that_contains_segment (covering sublist of sorted markers)  *)
(*   - gen_nearest_neighbor_matching_pairs (nearest-neighbour matching)    *)
(* of ObjWrapper.robj / ObjWrapper.obj of src/jo/jo/__init__.py, and of    *)
(* empty_arg_and_kwargs_for_format of src/rv/rv/__init__.py.               *)
(* Each generator / function call is a small state machine whose steps are *)
(* the statements of the Python source.                                    *)
(***************************************************************************)
EXTENDS Integers, Sequences, FiniteSets, TLC

\* ------------------------------------------------------------------ bounds
\* values of the elements of it1 / it2 are 0..MaxVal
MaxVal == 2
\* the first iterable given to gen_of_close_pairs_from_iterables has at most MaxLenA elements
MaxLenA == 3
\* the second one has at most MaxLenB elements
MaxLenB == 2
\* radius ranges over -1..MaxRadius (-1: a negative radius)
MaxRadius == 2
\* the calls that are followed to their end under fairness have inputs of at
\* most MaxConsumedLen elements
MaxConsumedLen == 2
\* key values of the markers of sublist_that_contains_segment are 0..MaxMark (+ tag)
MaxMark == 2
\* plain-number marker lists have at most MaxMarkers elements
MaxMarkers == 3
\* marker lists of 2-tuples (used with a key) have at most MaxKeyedMarkers elements
MaxKeyedMarkers == 2

\* coordinates of the points given to gen_nearest_neighbor_matching_pairs are 0..MaxPoint
MaxPoint == 2
\* query_pts has at most MaxQueries points
MaxQueries == 2
\* match_pts has (or is an index over) at most MaxRefs points
MaxRefs == 2
\* the radius of gen_nearest_neighbor_matching_pairs ranges over 0..MaxNNRadius, and inf
MaxNNRadius == 1

\* the 'attr' of a request to ObjWrapper.robj has at most MaxAttrLen characters
MaxAttrLen == 3
\* the constructor argument of a request is absent or one of 0..MaxObjKey
MaxObjKey == 0
\* the cache_size of the ObjWrapper is one of 1..MaxCacheSize
MaxCacheSize == 1
\* an ObjWrapper serves at most MaxRequests requests
MaxRequests == 2

\* a format string is made of at most MaxTokens pieces (literal text, fields)
MaxTokens == 3

\* ------------------------------------------------------------ Python values
\* Python's None, for values that are otherwise naturals (indices, elements)
None == -1

\* inf = float('infinity'): larger than every number the model handles
inf == MaxVal + MaxMark + 2

Vals == 0..MaxVal

SeqsUpTo(S, n) == UNION {[1..k -> S] : k \in 0..n}

Range(s) == {s[k] : k \in 1..Len(s)}

\* ------------------------------------------------------------------ sorted()
\* faulty variant of InsertSorted: the element is put in front, whatever its value
InsertInFront(x, s) == <<x>> \o s

RECURSIVE InsertSorted(_, _)
InsertSorted(x, s) ==
    IF s = <<>> THEN <<x>>
    ELSE IF x < Head(s) THEN <<x>> \o s
    ELSE <<Head(s)>> \o InsertSorted(x, Tail(s))

\* faulty variant of sorted: the elements are left in the order given
Unsorted(s) == s

RECURSIVE sorted(_)
\* Python's sorted(): ascending, stable (equal numbers are indistinguishable)
sorted(s) ==
    IF s = <<>> THEN <<>>
    ELSE InsertSorted(s[Len(s)], sorted(SubSeq(s, 1, Len(s) - 1)))

\* faulty variant of ArgumentAfterSorted: it1.sort(), which sorts the caller's list in place
ArgumentSortedInPlace(s) == sorted(s)

\* the caller's list after `it1 = sorted(it1)` (lines 167-168): sorted() builds a
\* new list and rebinds the local name, the list passed in is left as it is
ArgumentAfterSorted(s) == s

\* -------------------------------------------------------- distance functions
\* the dist_func arguments the model supplies:
\*   "abs"      lambda x1, x2: abs(x1 - x2)       (the default)
\*   "directed" lambda x1, x2: max(x1 - x2, 0)    (a non-symmetric one)
DistFuncs == {"abs", "directed"}

dist_func(f, a, b) ==
    IF f = "abs" THEN (IF a >= b THEN a - b ELSE b - a)
    ELSE (IF a > b THEN a - b ELSE 0)

\* ------------------------------------------------- _first_pair_within_radius
RECURSIVE ScanFrom(_, _, _, _, _)
\* the for loop of _first_pair_within_radius from 1-based position k on;
\* the result is <<i, x1>> with i the 0-based Python index
ScanFrom(it, k, x, r, f) ==
    IF k > Len(it) THEN <<None, None>>
    ELSE IF it[k] > x THEN <<k - 1, None>>
    ELSE IF dist_func(f, it[k], x) <= r THEN <<k - 1, it[k]>>
    ELSE ScanFrom(it, k + 1, x, r, f)

\* faulty variant of first_pair_within_radius: the nearest element that is
\* <= x and within radius (the last such one of a sorted list)
nearest_pair_within_radius(it, x, r, f) ==
    LET fit == {k \in 1..Len(it) : it[k] <= x /\ dist_func(f, it[k], x) <= r}
    IN IF fit # {} THEN LET k == CHOOSE j \in fit : \A h \in fit : h <= j
                        IN <<k - 1, it[k]>>
       ELSE ScanFrom(it, 1, x, r, f)

first_pair_within_radius(it, x, r, f) == ScanFrom(it, 1, x, r, f)

\* ------------------------------------------------------- _close_pairs_helper
\* faulty variant of HelperHasWork: `or` instead of `and`
HelperHasWorkEither(a, b) == Len(a) # 0 \/ Len(b) # 0

\* line 107: len(it1) != 0 and len(it2) != 0
HelperHasWork(a, b) == Len(a) # 0 /\ Len(b) # 0

\* faulty variant of ScansFirst: x1 < x2, equal fronts exchange the lists
ScansFirstStrict(a, b) == a[1] < b[1]

\* line 111: x1 <= x2, the first list is the one that is scanned
ScansFirst(a, b) == a[1] <= b[1]

\* faulty variant of YieldedPair: the inverted flag is ignored
YieldDroppingInversion(inv, a, b) == <<a, b>>

\* the pair yielded on a match (lines 115-118)
YieldedPair(inv, a, b) == IF inv THEN <<b, a>> ELSE <<a, b>>

\* faulty variant of SliceAfter: it1[i:], which keeps the matched element
SliceKeepingMatch(it, k) == SubSeq(it, k + 1, Len(it))

\* it1[(i + 1):], k the Python index i
SliceAfter(it, k) == SubSeq(it, k + 2, Len(it))

\* faulty variants of DropFirst: it2[2:], it2[0:]
DropFirstTwo(it) == SubSeq(it, 3, Len(it))

DropNone(it) == it

\* it2[1:]
DropFirst(it) == SubSeq(it, 2, Len(it))

\* ------------------------------------------- sublist_that_contains_segment
\* the key arguments the model supplies:
\*   "None"   key=None                       (markers are numbers)
\*   "item0"  key=0, not callable: x[key]    (markers are 2-tuples)
\*   "sum"    key=lambda x: x[0] + x[1]      (markers are 2-tuples)
Keys == {"None", "item0", "sum"}

\* lines 228-233
x_to_val(k, x) ==
    IF k = "None" THEN x
    ELSE IF k = "sum" THEN x[1] + x[2]
    ELSE x[1]

\* faulty variant of IsOutOfOrder: val <= previous_val
NotAfterPrevious(val, prev) == val <= prev

\* line 238: val < previous_val
IsOutOfOrder(val, prev) == val < prev

\* faulty variant of BelowFrom: val <= from_val
AtOrBelowFrom(val, from) == val <= from

\* line 240: val < from_val
BelowFrom(val, from) == val < from

\* faulty variants of AboveTo: val > to_val + 1, val >= to_val
AboveToPlusOne(val, to) == val > to + 1

AtOrAboveTo(val, to) == val >= to

\* line 243: val > to_val
AboveTo(val, to) == val > to

\* faulty variants of Reset: sublist = [], sublist.append(x)
ResetDropping(sub, x) == <<>>

ResetAppending(sub, x) == Append(sub, x)

\* line 241: sublist = [x]
Reset(sub, x) == <<x>>

\* --------------------------------------- gen_nearest_neighbor_matching_pairs
\* The second argument is modelled as [kind, pts]: kind "points" is an
\* array-like of points, kind "index" a fitted NearestNeighbors instance,
\* pts the points given / the points the instance was fitted on.  Points are
\* scalars (1-D coordinates).

\* np.array(x) (lines 35-36): an array-like of scalars becomes a 1-d array; an
\* object that is no sequence (a NearestNeighbors instance) becomes a 0-d
\* array of dtype object that holds it
np_array(x) ==
    IF x.kind = "points" THEN [kind |-> "ndarray", ndim |-> 1, data |-> x.pts]
    ELSE [kind |-> "ndarray", ndim |-> 0, data |-> <<>>]

\* lines 38-43: trans_wrt_ndim
trans_wrt_ndim(arr) ==
    IF arr.ndim = 1 THEN [kind |-> "ndarray", ndim |-> 2, data |-> arr.data]
    ELSE arr

\* line 45: isinstance(match_pts, NearestNeighbors), match_pts the value
\* line 36 has bound to the name
IsNearestNeighbors(v) == v.kind = "index"

\* NearestNeighbors.fit / kneighbors (scikit-learn) validate the array given:
\* it must be 2-d and hold at least one sample, else they raise ValueError
SklearnRejects(arr) == arr.ndim # 2 \/ Len(arr.data) = 0

\* Euclidean distance of two 1-D points
PointDist(a, b) == IF a >= b THEN a - b ELSE b - a

\* faulty variant of Candidates: a reference point answers one query only
CandidatesNotYetUsed(pts, used) == (1..Len(pts)) \ used

\* the fitted points a query is answered over, used the set of the points
\* that already answered an earlier query of the same kneighbors call: all of them
Candidates(pts, used) == 1..Len(pts)

\* the results match_idx (1-based) that nn.kneighbors may return for the
\* queries q over the fitted points pts (lines 50-54): for each query a
\* nearest point, any of them when several are equally near
KneighborsResults(q, pts) ==
    {idx \in [1..Len(q) -> 1..Len(pts)] :
        \A k \in 1..Len(q) :
            LET cand == Candidates(pts, {idx[j] : j \in 1..(k - 1)})
            IN /\ idx[k] \in cand
               /\ \A c \in cand : PointDist(q[k], pts[idx[k]]) <= PointDist(q[k], pts[c])}

\* line 55: match_dist <= radius
WithinRadius(d, r) == d <= r

RECURSIVE MaskedPositions(_, _)
\* np.arange(len(mask))[mask], 1-based: the positions k <= n with mask[k], in order
MaskedPositions(mask, n) ==
    IF n = 0 THEN <<>>
    ELSE IF mask[n] THEN Append(MaskedPositions(mask, n - 1), n)
    ELSE MaskedPositions(mask, n - 1)

\* faulty variant of ZippedPair: in index mode the rank among the matches
\* is yielded instead of the position of the query point
ZippedPairByRank(flag, rank, qpos, q, m, idx) ==
    IF flag THEN <<rank - 1, idx[qpos] - 1>> ELSE <<q[qpos], m[idx[qpos]]>>

\* lines 57-65: the rank-th pair of the zip, qpos the (1-based) position of
\* the rank-th query point within radius; indices are yielded 0-based
ZippedPair(flag, rank, qpos, q, m, idx) ==
    IF flag THEN <<qpos - 1, idx[qpos] - 1>> ELSE <<q[qpos], m[idx[qpos]]>>

VARIABLES
    \* ---- empty_arg_and_kwargs_for_format (rv)
    format_string,         \* the argument format_string: its pieces, in order
    format_params,         \* the local format_params
    rv_args,               \* the list args returned
    rv_kwargs,             \* the dict kwargs returned
    rv_error,              \* "none" | "no_hybrid_format_error" | "max_of_empty" (ValueError of max)
    rv_pc,                 \* "idle" | "parsed" (line 363) | "returned" | "raised"
    \* ---- ObjWrapper (jo)
    permissible_attr_pattern,  \* self.permissible_attr_pattern (its pattern string)
    cache_size,            \* the cache_size the wrapper was built with
    obj_cache,             \* the keys held by the lru_cache of obj_constructor, least recently used first
    request,               \* the request being served: [has_attr, attr, obj_arg]
    attr,                  \* robj's local attr: [none, str]
    n_constructed,         \* calls of the wrapped obj_constructor made for this request
    cache_at_request,      \* obj_cache when this request came in
    attrs_read,            \* the names passed to getattr for this request, in order
    n_called,              \* calls of the leaf attribute made for this request
    jo_outcome,            \* "none" | "MissingAttribute" | "ForbiddenAttribute" | "result"
    n_served,              \* number of requests the wrapper has finished
    jo_pc,                 \* "idle" | "robj" (line 276) | "obj" (line 235) | "leaf" (line 247) | "respond" (line 254)
    leaf,                  \* what get_attr_recursively returned: "default" | "property" | "method"
    \* ---- gen_nearest_neighbor_matching_pairs
    query_pts,             \* the argument query_pts
    match_arg,             \* the argument match_pts: [kind, pts]
    nn_radius,             \* the argument radius
    yield_indices_only,    \* the argument yield_indices_only
    match_pts,             \* the local match_pts after line 36 (an ndarray)
    nn,                    \* the points the search structure nn answers over
    n_built,               \* number of NearestNeighbors instances this call has built
    match_idx,             \* the local match_idx (1-based positions in the fitted points)
    within_radius_lidx,    \* the local within_radius_lidx
    nn_out,                \* the pairs yielded so far, in order
    nn_pc,                 \* "idle" | "fitted" (line 50) | "yielding" (line 57) | "done" | "raised"
    \* ---- sublist_that_contains_segment
    sorted_segment_mins,   \* the argument sorted_segment_mins
    from_val, to_val,      \* the arguments from_val, to_val (None until line 224-227 resolve them)
    key,                   \* the argument key
    sublist,               \* the local sublist
    previous_val,          \* the local previous_val
    nxt,                   \* number of markers the for loop has taken so far
    seg_pc,                \* "idle" | "loop" (line 236) | "returned" | "raised"
    \* ---- gen_of_close_pairs_from_iterables
    seq_a, seq_b,      \* the caller's two iterables (arguments it1, it2)
    radius, distfn,    \* the caller's radius and dist_func
    it1, it2,          \* the helper's locals it1, it2
    inverted,          \* the helper's parameter inverted
    i, x1, x2,         \* the helper's locals i, x1, x2
    depth,             \* number of nested _close_pairs_helper frames
    pc,                \* "idle" | "entry" (line 107) | "loop" (line 112) | "done" | "raised"
    out,               \* the pairs yielded so far, in order
    outPos             \* for each yielded pair, <<position in sorted(seq_a), position in sorted(seq_b)>>

cpVars == <<seq_a, seq_b, radius, distfn, it1, it2, inverted, i, x1, x2, depth, pc, out, outPos>>

segVars == <<sorted_segment_mins, from_val, to_val, key, sublist, previous_val, nxt, seg_pc>>

nnVars == <<query_pts, match_arg, nn_radius, yield_indices_only, match_pts, nn, n_built,
           match_idx, within_radius_lidx, nn_out, nn_pc>>

joVars == <<permissible_attr_pattern, cache_size, obj_cache, request, attr, n_constructed,
           cache_at_request, attrs_read, n_called, jo_outcome, n_served, jo_pc, leaf>>

rvVars == <<format_string, format_params, rv_args, rv_kwargs, rv_error, rv_pc>>

vars == <<cpVars, segVars, nnVars, joVars, rvVars>>

IdleFormat ==
    /\ format_string = <<>>
    /\ format_params = <<>>
    /\ rv_args = <<>>
    /\ rv_kwargs = <<>>
    /\ rv_error = "none"
    /\ rv_pc = "unused"

IdleWrapper ==
    /\ permissible_attr_pattern = "[^_].*"
    /\ cache_size = 1
    /\ obj_cache = <<>>
    /\ request = [has_attr |-> FALSE, attr |-> <<>>, obj_arg |-> None]
    /\ attr = [none |-> TRUE, str |-> <<>>]
    /\ n_constructed = 0
    /\ cache_at_request = <<>>
    /\ attrs_read = <<>>
    /\ n_called = 0
    /\ jo_outcome = "none"
    /\ n_served = 0
    /\ jo_pc = "unused"
    /\ leaf = "default"

IdleNearest ==
    /\ query_pts = <<>>
    /\ match_arg = [kind |-> "points", pts |-> <<>>]
    /\ nn_radius = inf
    /\ yield_indices_only = FALSE
    /\ match_pts = <<>>
    /\ nn = <<>>
    /\ n_built = 0
    /\ match_idx = <<>>
    /\ within_radius_lidx = <<>>
    /\ nn_out = <<>>
    /\ nn_pc = "unused"

\* the state of a function that is not called in the specification at hand
IdleClosePairs ==
    /\ seq_a = <<>> /\ seq_b = <<>>
    /\ radius = 0
    /\ distfn = "abs"
    /\ it1 = <<>> /\ it2 = <<>>
    /\ inverted = FALSE
    /\ i = None /\ x1 = None /\ x2 = None
    /\ depth = 0
    /\ pc = "idle"
    /\ out = <<>> /\ outPos = <<>>

IdleSegment ==
    /\ sorted_segment_mins = <<>>
    /\ from_val = None /\ to_val = None
    /\ key = "None"
    /\ sublist = <<>>
    /\ previous_val = None
    /\ nxt = 0
    /\ seg_pc = "idle"

\* the sorted list the helper's it1 / it2 is a suffix of
Orig1 == IF inverted THEN sorted(seq_b) ELSE sorted(seq_a)
Orig2 == IF inverted THEN sorted(seq_a) ELSE sorted(seq_b)

\* 1-based position, in its sorted input, of it1[k + 1] (k a Python index) / of it2[0]
Pos1(k) == Len(Orig1) - Len(it1) + k + 1
Pos2 == Len(Orig2) - Len(it2) + 1

InitClosePairs ==
    /\ IdleFormat
    /\ IdleSegment
    /\ IdleNearest
    /\ IdleWrapper
    /\ seq_a \in SeqsUpTo(Vals, MaxLenA)
    /\ seq_b \in SeqsUpTo(Vals, MaxLenB)
    /\ radius \in (-1)..MaxRadius
    /\ distfn \in DistFuncs
    /\ it1 = <<>> /\ it2 = <<>>
    /\ inverted = FALSE
    /\ i = None /\ x1 = None /\ x2 = None
    /\ depth = 0
    /\ pc = "idle"
    /\ out = <<>> /\ outPos = <<>>

\* lines 167-172: sort both inputs and enter the helper
Call ==
    /\ pc = "idle"
    /\ it1' = sorted(sorted(seq_a))
    /\ it2' = sorted(sorted(seq_b))
    /\ seq_a' = ArgumentAfterSorted(seq_a)
    /\ seq_b' = ArgumentAfterSorted(seq_b)
    /\ inverted' = FALSE
    /\ depth' = 1
    /\ pc' = "entry"
    /\ UNCHANGED <<radius, distfn, i, x1, x2, out, outPos, segVars, nnVars, joVars, rvVars>>

\* line 107 false: one of the lists is empty, the helper returns
HelperEmpty ==
    /\ pc = "entry"
    /\ ~HelperHasWork(it1, it2)
    /\ pc' = "done"
    /\ UNCHANGED <<seq_a, seq_b, radius, distfn, it1, it2, inverted, i, x1, x2, depth, out, outPos, segVars, nnVars, joVars, rvVars>>

\* lines 108-111, x1 <= x2: go to the while loop
\* (it1[0] / it2[0] of an empty list raises IndexError)
HelperScan ==
    /\ pc = "entry"
    /\ HelperHasWork(it1, it2)
    /\ IF Len(it1) = 0 \/ Len(it2) = 0
       THEN /\ pc' = "raised"
            /\ UNCHANGED <<x1, x2>>
       ELSE /\ ScansFirst(it1, it2)
            /\ x1' = it1[1]
            /\ x2' = it2[1]
            /\ pc' = "loop"
    /\ UNCHANGED <<seq_a, seq_b, radius, distfn, it1, it2, inverted, i, depth, out, outPos, segVars, nnVars, joVars, rvVars>>

\* lines 108-111 and 128-131, x1 > x2: recursive call with the lists exchanged
HelperSwap ==
    /\ pc = "entry"
    /\ HelperHasWork(it1, it2)
    /\ Len(it1) # 0 /\ Len(it2) # 0
    /\ ~ScansFirst(it1, it2)
    /\ x1' = None
    /\ x2' = None
    /\ it1' = it2
    /\ it2' = it1
    /\ inverted' = ~inverted
    /\ depth' = depth + 1
    /\ pc' = "entry"
    /\ UNCHANGED <<seq_a, seq_b, radius, distfn, i, out, outPos, segVars, nnVars, joVars, rvVars>>

\* lines 112-125: one iteration of the while loop that finds a match
LoopMatch ==
    /\ pc = "loop"
    /\ x1 <= x2
    /\ LET r == first_pair_within_radius(it1, x2, radius, distfn)
           n1 == SliceAfter(it1, r[1])
           n2 == DropFirst(it2)
       IN /\ r[2] # None
          /\ i' = r[1]
          /\ out' = Append(out, YieldedPair(inverted, r[2], x2))
          /\ outPos' = Append(outPos, YieldedPair(inverted, Pos1(r[1]), Pos2))
          /\ it1' = n1
          /\ it2' = n2
          /\ IF Len(n1) = 0 \/ Len(n2) = 0
             THEN /\ x1' = r[2]
                  /\ x2' = x2
                  /\ pc' = "done"
             ELSE /\ x1' = n1[1]
                  /\ x2' = n2[1]
                  /\ pc' = "loop"
    /\ UNCHANGED <<seq_a, seq_b, radius, distfn, inverted, depth, segVars, nnVars, joVars, rvVars>>

\* faulty variant of LoopNoMatch: after a scan without a match the target is
\* given up and the loop goes on with the next one (continue instead of break)
LoopNoMatchNextTarget ==
    /\ pc = "loop"
    /\ x1 <= x2
    /\ LET r == first_pair_within_radius(it1, x2, radius, distfn)
           n2 == DropFirst(it2)
       IN /\ r[2] = None
          /\ i' = r[1]
          /\ x1' = None
          /\ it2' = n2
          /\ IF Len(n2) = 0
             THEN x2' = x2 /\ pc' = "done"
             ELSE x2' = n2[1] /\ pc' = "loop"
    /\ UNCHANGED <<seq_a, seq_b, radius, distfn, it1, inverted, depth, out, outPos, segVars, nnVars, joVars, rvVars>>

\* lines 112-114, 126-127: the scan finds no match (overshoot or end of it1)
LoopNoMatch ==
    /\ pc = "loop"
    /\ x1 <= x2
    /\ LET r == first_pair_within_radius(it1, x2, radius, distfn)
       IN /\ r[2] = None
          /\ i' = r[1]
          /\ x1' = None
    /\ pc' = "done"
    /\ UNCHANGED <<seq_a, seq_b, radius, distfn, it1, it2, inverted, x2, depth, out, outPos, segVars, nnVars, joVars, rvVars>>

\* line 112 false after a match: the while loop ends, the helper returns
LoopExit ==
    /\ pc = "loop"
    /\ x1 > x2
    /\ pc' = "done"
    /\ UNCHANGED <<seq_a, seq_b, radius, distfn, it1, it2, inverted, i, x1, x2, depth, out, outPos, segVars, nnVars, joVars, rvVars>>

\* ---- the list of all pairs one call yields, as a function of its arguments
RECURSIVE HelperLoop(_, _, _, _, _)
\* lines 112-127: the while loop, entered with non-empty lists a, b
HelperLoop(a, b, r, inv, f) ==
    IF a[1] > b[1] THEN <<>>
    ELSE LET s == first_pair_within_radius(a, b[1], r, f)
             n1 == SliceAfter(a, s[1])
             n2 == DropFirst(b)
         IN IF s[2] = None THEN <<>>
            ELSE <<YieldedPair(inv, s[2], b[1])>>
                 \o (IF Len(n1) = 0 \/ Len(n2) = 0 THEN <<>>
                     ELSE HelperLoop(n1, n2, r, inv, f))

RECURSIVE close_pairs_helper(_, _, _, _, _)
\* lines 107-131
close_pairs_helper(a, b, r, inv, f) ==
    IF ~HelperHasWork(a, b) THEN <<>>
    ELSE IF ScansFirst(a, b) THEN HelperLoop(a, b, r, inv, f)
    ELSE close_pairs_helper(b, a, r, ~inv, f)

\* lines 167-172
gen_of_close_pairs_from_iterables(a, b, r, f) ==
    close_pairs_helper(sorted(sorted(a)), sorted(sorted(b)), r, FALSE, f)

NextClosePairs ==
    \/ Call
    \/ HelperEmpty
    \/ HelperScan
    \/ HelperSwap
    \/ LoopMatch
    \/ LoopNoMatch
    \/ LoopExit

SpecClosePairs == InitClosePairs /\ [][NextClosePairs]_vars

\* the steps of _close_pairs_helper (lines 107-131)
HelperStep ==
    \/ HelperEmpty
    \/ HelperScan
    \/ HelperSwap
    \/ LoopMatch
    \/ LoopNoMatch
    \/ LoopExit

\* the generator is consumed to its end: once the call has started (the
\* inputs are sorted and the helper is entered), the consumer keeps asking
\* for the next pair, so a step of the helper that can be taken is taken
InitClosePairsConsumed ==
    /\ InitClosePairs
    /\ Len(seq_a) <= MaxConsumedLen
    /\ Len(seq_b) <= MaxConsumedLen

SpecClosePairsConsumed ==
    InitClosePairsConsumed /\ [][NextClosePairs]_vars /\ WF_vars(HelperStep)

\* =================================================================
\* sublist_that_contains_segment
\* =================================================================
Marks == 0..MaxMark

\* the 2-tuple markers: <<x[0], x[1]>>
TupleMarks == Marks \X (0..1)

\* values from_val / to_val are called with (None: argument given as None)
FromToVals == (0..(MaxMark + 1)) \cup {-inf, inf, None}

InitSegment ==
    /\ IdleFormat
    /\ IdleClosePairs
    /\ IdleNearest
    /\ IdleWrapper
    /\ key \in Keys
    /\ IF key = "None"
       THEN sorted_segment_mins \in SeqsUpTo(Marks, MaxMarkers)
       ELSE sorted_segment_mins \in SeqsUpTo(TupleMarks, MaxKeyedMarkers)
    /\ from_val \in FromToVals
    /\ to_val \in FromToVals
    /\ sublist = <<>>
    /\ previous_val = None
    /\ nxt = 0
    /\ seg_pc = "idle"

\* lines 223-235: defaults and initialisation
SegCall ==
    /\ seg_pc = "idle"
    /\ sublist' = <<>>
    /\ from_val' = IF from_val = None THEN -inf ELSE from_val
    /\ to_val' = IF to_val = None THEN inf ELSE to_val
    /\ previous_val' = -inf
    /\ nxt' = 0
    /\ seg_pc' = "loop"
    /\ UNCHANGED <<sorted_segment_mins, key, cpVars, nnVars, joVars, rvVars>>

\* the marker the for loop takes next, and its value (lines 236-237)
NextMarker == sorted_segment_mins[nxt + 1]
NextVal == x_to_val(key, NextMarker)

\* lines 238-239: raise AssertionError('sorted_ts is not sorted')
SegRaise ==
    /\ seg_pc = "loop"
    /\ nxt < Len(sorted_segment_mins)
    /\ IsOutOfOrder(NextVal, previous_val)
    /\ nxt' = nxt + 1
    /\ seg_pc' = "raised"
    /\ UNCHANGED <<sorted_segment_mins, from_val, to_val, key, sublist, previous_val, cpVars, nnVars, joVars, rvVars>>

\* lines 240-241, 247: val < from_val
SegReset ==
    /\ seg_pc = "loop"
    /\ nxt < Len(sorted_segment_mins)
    /\ ~IsOutOfOrder(NextVal, previous_val)
    /\ BelowFrom(NextVal, from_val)
    /\ sublist' = Reset(sublist, NextMarker)
    /\ previous_val' = NextVal
    /\ nxt' = nxt + 1
    /\ UNCHANGED <<sorted_segment_mins, from_val, to_val, key, seg_pc, cpVars, nnVars, joVars, rvVars>>

\* lines 243-244, 249: val > to_val: break and return
SegBreak ==
    /\ seg_pc = "loop"
    /\ nxt < Len(sorted_segment_mins)
    /\ ~IsOutOfOrder(NextVal, previous_val)
    /\ ~BelowFrom(NextVal, from_val)
    /\ AboveTo(NextVal, to_val)
    /\ nxt' = nxt + 1
    /\ seg_pc' = "returned"
    /\ UNCHANGED <<sorted_segment_mins, from_val, to_val, key, sublist, previous_val, cpVars, nnVars, joVars, rvVars>>

\* lines 245-247: append
SegAppend ==
    /\ seg_pc = "loop"
    /\ nxt < Len(sorted_segment_mins)
    /\ ~IsOutOfOrder(NextVal, previous_val)
    /\ ~BelowFrom(NextVal, from_val)
    /\ ~AboveTo(NextVal, to_val)
    /\ sublist' = Append(sublist, NextMarker)
    /\ previous_val' = NextVal
    /\ nxt' = nxt + 1
    /\ UNCHANGED <<sorted_segment_mins, from_val, to_val, key, seg_pc, cpVars, nnVars, joVars, rvVars>>

\* line 236 exhausted, line 249: return sublist
SegReturn ==
    /\ seg_pc = "loop"
    /\ nxt = Len(sorted_segment_mins)
    /\ seg_pc' = "returned"
    /\ UNCHANGED <<sorted_segment_mins, from_val, to_val, key, sublist, previous_val, nxt, cpVars, nnVars, joVars, rvVars>>

NextSegment ==
    \/ SegCall
    \/ SegRaise
    \/ SegReset
    \/ SegBreak
    \/ SegAppend
    \/ SegReturn

SpecSegment == InitSegment /\ [][NextSegment]_vars

\* =================================================================
\* gen_nearest_neighbor_matching_pairs
\* =================================================================
Points == 0..MaxPoint

InitNearest ==
    /\ IdleFormat
    /\ IdleClosePairs
    /\ IdleSegment
    /\ IdleWrapper
    /\ query_pts \in SeqsUpTo(Points, MaxQueries)
    /\ match_arg \in [kind : {"points", "index"}, pts : SeqsUpTo(Points, MaxRefs)]
    /\ nn_radius \in (0..MaxNNRadius) \cup {inf}
    /\ yield_indices_only \in BOOLEAN
    /\ match_pts = <<>>
    /\ nn = <<>>
    /\ n_built = 0
    /\ match_idx = <<>>
    /\ within_radius_lidx = <<>>
    /\ nn_out = <<>>
    /\ nn_pc = "idle"

\* lines 35-48: convert the arguments, then use the index given or build one
NNBuild ==
    /\ nn_pc = "idle"
    /\ LET arr == np_array(match_arg)
       IN /\ match_pts' = arr
          /\ IF IsNearestNeighbors(arr)
             THEN /\ nn' = match_arg.pts
                  /\ n_built' = n_built
                  /\ nn_pc' = "fitted"
             ELSE /\ n_built' = n_built + 1
                  /\ IF SklearnRejects(trans_wrt_ndim(arr))
                     THEN nn' = nn /\ nn_pc' = "raised"
                     ELSE nn' = arr.data /\ nn_pc' = "fitted"
    /\ UNCHANGED <<query_pts, match_arg, nn_radius, yield_indices_only, match_idx,
                   within_radius_lidx, nn_out, cpVars, segVars, joVars, rvVars>>

\* lines 50-55: nn.kneighbors raises on an array without samples
NNQueryRaises ==
    /\ nn_pc = "fitted"
    /\ SklearnRejects(trans_wrt_ndim(np_array([kind |-> "points", pts |-> query_pts])))
    /\ nn_pc' = "raised"
    /\ UNCHANGED <<query_pts, match_arg, nn_radius, yield_indices_only, match_pts, nn, n_built,
                   match_idx, within_radius_lidx, nn_out, cpVars, segVars, joVars, rvVars>>

\* lines 50-55: the nearest fitted point of every query point, and the mask
\* of the query points whose nearest point is within radius
NNQuery ==
    /\ nn_pc = "fitted"
    /\ ~SklearnRejects(trans_wrt_ndim(np_array([kind |-> "points", pts |-> query_pts])))
    /\ \E idx \in KneighborsResults(query_pts, nn) :
          /\ match_idx' = idx
          /\ within_radius_lidx' =
                [k \in 1..Len(query_pts) |->
                    WithinRadius(PointDist(query_pts[k], nn[idx[k]]), nn_radius)]
    /\ nn_pc' = "yielding"
    /\ UNCHANGED <<query_pts, match_arg, nn_radius, yield_indices_only, match_pts, nn, n_built,
                   nn_out, cpVars, segVars, joVars, rvVars>>

\* lines 57-65: the zip yields its next pair
NNYield ==
    /\ nn_pc = "yielding"
    /\ LET sel == MaskedPositions(within_radius_lidx, Len(within_radius_lidx))
           rank == Len(nn_out) + 1
       IN /\ rank <= Len(sel)
          /\ nn_out' = Append(nn_out, ZippedPair(yield_indices_only, rank, sel[rank],
                                                 query_pts, match_pts.data, match_idx))
    /\ UNCHANGED <<query_pts, match_arg, nn_radius, yield_indices_only, match_pts, nn, n_built,
                   match_idx, within_radius_lidx, nn_pc, cpVars, segVars, joVars, rvVars>>

\* lines 57-65: the zip is exhausted, the generator returns
NNDone ==
    /\ nn_pc = "yielding"
    /\ Len(nn_out) = Len(MaskedPositions(within_radius_lidx, Len(within_radius_lidx)))
    /\ nn_pc' = "done"
    /\ UNCHANGED <<query_pts, match_arg, nn_radius, yield_indices_only, match_pts, nn, n_built,
                   match_idx, within_radius_lidx, nn_out, cpVars, segVars, joVars, rvVars>>

NextNearest ==
    \/ NNBuild
    \/ NNQueryRaises
    \/ NNQuery
    \/ NNYield
    \/ NNDone

SpecNearest == InitNearest /\ [][NextNearest]_vars

\* =================================================================
\* a caller that uses gen_of_close_pairs_from_iterables and
\* sublist_that_contains_segment: it calls either of them on inputs of its
\* choice, and may call the other one (on empty inputs) in between
\* =================================================================
InitSelection == InitClosePairs \/ InitSegment

NextSelection == NextClosePairs \/ NextSegment

SpecSelection == InitSelection /\ [][NextSelection]_vars

\* =================================================================
\* ObjWrapper.robj / ObjWrapper.obj (src/jo/jo/__init__.py)
\* A string is the sequence of its characters; the attribute paths of the
\* model are written with a letter, the underscore and the period.
\* =================================================================
Chars == {"a", "_", "."}

AttrStrings == SeqsUpTo(Chars, MaxAttrLen)

\* the patterns a wrapper is built with: the default '[^_].*' and the custom 'a'
Patterns == {"[^_].*", "a"}

\* re.compile(pattern).match(s) is not None: the pattern matches at the
\* start of s (nothing is required of what follows the match)
\*   '[^_].*'  one character that is no underscore, then any characters
\*   'a'       the character a
re_match(pattern, str) ==
    IF pattern = "[^_].*" THEN Len(str) >= 1 /\ str[1] # "_"
    ELSE Len(str) >= 1 /\ str[1] = "a"

\* faulty variant of is_permissible_attr: every attribute is let through
AnyAttrPermissible(pattern, str) == TRUE

\* lines 230-231: _is_permissible_attr
is_permissible_attr(pattern, str) == re_match(pattern, str)

RECURSIVE split(_)
\* str.split('.'): the components between the periods ('' gives [''])
split(str) ==
    IF \A k \in 1..Len(str) : str[k] # "."
    THEN <<str>>
    ELSE LET k == CHOOSE j \in 1..Len(str) : str[j] = "." /\ \A h \in 1..(j - 1) : str[h] # "."
         IN <<SubSeq(str, 1, k - 1)>> \o split(SubSeq(str, k + 1, Len(str)))

\* the keys of the lru_cache (line 193) after a call with key, least
\* recently used first: key becomes the most recently used one, and the
\* least recently used one is dropped when more than size keys are held
CacheAfter(cache, k, size) ==
    LET kept == SelectSeq(cache, LAMBDA c : c # k)
        added == Append(kept, k)
    IN IF Len(added) > size THEN Tail(added) ELSE added

\* the constructor arguments of the requests: None when the request has no
\* constructor argument (the constructor is called without arguments)
ObjArgs == (0..MaxObjKey) \cup {None}

Requests == [has_attr : BOOLEAN, attr : AttrStrings, obj_arg : ObjArgs]

InitWrapper ==
    /\ IdleFormat
    /\ IdleClosePairs
    /\ IdleSegment
    /\ IdleNearest
    /\ permissible_attr_pattern \in Patterns
    /\ cache_size \in 1..MaxCacheSize
    /\ obj_cache = <<>>
    /\ request = [has_attr |-> FALSE, attr |-> <<>>, obj_arg |-> None]
    /\ attr = [none |-> TRUE, str |-> <<>>]
    /\ n_constructed = 0
    /\ cache_at_request = <<>>
    /\ attrs_read = <<>>
    /\ n_called = 0
    /\ jo_outcome = "none"
    /\ n_served = 0
    /\ jo_pc = "idle"
    /\ leaf = "default"

\* a request comes in and robj is called with it
JoRequest ==
    /\ jo_pc = "idle"
    /\ n_served < MaxRequests
    /\ request' \in {r \in Requests : r.has_attr \/ r.attr = <<>>}
    /\ attr' = [none |-> TRUE, str |-> <<>>]
    /\ n_constructed' = 0
    /\ cache_at_request' = obj_cache
    /\ attrs_read' = <<>>
    /\ n_called' = 0
    /\ jo_outcome' = "none"
    /\ leaf' = "default"
    /\ jo_pc' = "robj"
    /\ UNCHANGED <<permissible_attr_pattern, cache_size, obj_cache, n_served, cpVars, segVars, nnVars, rvVars>>

\* kwargs.pop('attr', None) (line 283)
PoppedAttr == IF request.has_attr THEN [none |-> FALSE, str |-> request.attr]
              ELSE [none |-> TRUE, str |-> <<>>]

\* lines 276-285: no 'attr' in the request: raise MissingAttribute
JoMissing ==
    /\ jo_pc = "robj"
    /\ PoppedAttr.none
    /\ attr' = PoppedAttr
    /\ jo_outcome' = "MissingAttribute"
    /\ n_served' = n_served + 1
    /\ jo_pc' = "idle"
    /\ UNCHANGED <<permissible_attr_pattern, cache_size, obj_cache, request, n_constructed,
                   cache_at_request, attrs_read, n_called, leaf, cpVars, segVars, nnVars, rvVars>>

\* lines 276-289: the pattern does not match attr: raise ForbiddenAttribute
JoForbidden ==
    /\ jo_pc = "robj"
    /\ ~PoppedAttr.none
    /\ ~is_permissible_attr(permissible_attr_pattern, PoppedAttr.str)
    /\ attr' = PoppedAttr
    /\ jo_outcome' = "ForbiddenAttribute"
    /\ n_served' = n_served + 1
    /\ jo_pc' = "idle"
    /\ UNCHANGED <<permissible_attr_pattern, cache_size, obj_cache, request, n_constructed,
                   cache_at_request, attrs_read, n_called, leaf, cpVars, segVars, nnVars, rvVars>>

\* lines 276-298: attr is permissible: call self.obj
JoPermitted ==
    /\ jo_pc = "robj"
    /\ ~PoppedAttr.none
    /\ is_permissible_attr(permissible_attr_pattern, PoppedAttr.str)
    /\ attr' = PoppedAttr
    /\ jo_pc' = "obj"
    /\ UNCHANGED <<permissible_attr_pattern, cache_size, obj_cache, request, n_constructed,
                   cache_at_request, attrs_read, n_called, jo_outcome, n_served, leaf,
                   cpVars, segVars, nnVars, rvVars>>

\* lines 235-236: self.obj_constructor(**obj): the object is taken from the
\* cache, or constructed and put into it
JoConstruct ==
    /\ jo_pc = "obj"
    /\ n_constructed' = IF request.obj_arg \in Range(obj_cache) THEN n_constructed
                        ELSE n_constructed + 1
    /\ obj_cache' = CacheAfter(obj_cache, request.obj_arg, cache_size)
    /\ jo_pc' = "leaf"
    /\ UNCHANGED <<permissible_attr_pattern, cache_size, request, attr, cache_at_request,
                   attrs_read, n_called, jo_outcome, n_served, leaf, cpVars, segVars, nnVars, rvVars>>

\* lines 247-251: get_attr_recursively (lines 301-307) calls getattr with the
\* components of attr one after the other until one of them is missing
\* (then the result is the default, None); the empty name is always missing
JoLeaf ==
    /\ jo_pc = "leaf"
    /\ IF attr.none
       THEN /\ jo_outcome' = "MissingAttribute"
            /\ n_served' = n_served + 1
            /\ jo_pc' = "idle"
            /\ UNCHANGED <<attrs_read, leaf>>
       ELSE /\ \E n \in 1..Len(split(attr.str)), found \in BOOLEAN :
                  /\ \A k \in 1..(n - 1) : split(attr.str)[k] # <<>>
                  /\ found => (n = Len(split(attr.str)) /\ split(attr.str)[n] # <<>>)
                  /\ attrs_read' = SubSeq(split(attr.str), 1, n)
                  /\ leaf' \in IF found THEN {"property", "method"} ELSE {"default"}
            /\ jo_pc' = "respond"
            /\ UNCHANGED <<jo_outcome, n_served>>
    /\ UNCHANGED <<permissible_attr_pattern, cache_size, obj_cache, request, attr, n_constructed,
                   cache_at_request, n_called, cpVars, segVars, nnVars, rvVars>>

\* lines 254-257: call the leaf if it is callable, and return the result
JoRespond ==
    /\ jo_pc = "respond"
    /\ n_called' = IF leaf = "method" THEN n_called + 1 ELSE n_called
    /\ jo_outcome' = "result"
    /\ n_served' = n_served + 1
    /\ jo_pc' = "idle"
    /\ UNCHANGED <<permissible_attr_pattern, cache_size, obj_cache, request, attr, n_constructed,
                   cache_at_request, attrs_read, leaf, cpVars, segVars, nnVars, rvVars>>

NextWrapper ==
    \/ JoRequest
    \/ JoMissing
    \/ JoForbidden
    \/ JoPermitted
    \/ JoConstruct
    \/ JoLeaf
    \/ JoRespond

SpecWrapper == InitWrapper /\ [][NextWrapper]_vars

\* =================================================================
\* empty_arg_and_kwargs_for_format (src/rv/rv/__init__.py)
\* A format string is the sequence of its pieces: a piece is literal text
\* or a replacement field {field_name}, field_name one of '', '0', '1',
\* 'x', 'y'.
\* =================================================================
FieldNames == {"", "0", "1", "x", "y"}

Pieces == {[text |-> TRUE, field_name |-> ""]} \cup {[text |-> FALSE, field_name |-> f] : f \in FieldNames}

FormatStrings == SeqsUpTo(Pieces, MaxTokens)

\* the field_name items of string.Formatter().parse(format_string) that are
\* not None (line 309): a piece of literal text that no field follows has
\* field_name None and is filtered out
parsed_field_names(fs) ==
    LET fields == SelectSeq(fs, LAMBDA piece : ~piece.text)
    IN [k \in 1..Len(fields) |-> fields[k].field_name]

\* str.isnumeric(x) and int(x), for the field names of the model
isnumeric(x) == x \in {"0", "1"}

int(x) == IF x = "0" THEN 0 ELSE 1

\* line 308: int(x) if str.isnumeric(x) else x if x != '' else None; a
\* parameter is [type, int, str] with type "int", "str" or "NoneType"
to_param(x) ==
    IF isnumeric(x) THEN [type |-> "int", int |-> int(x), str |-> ""]
    ELSE IF x # "" THEN [type |-> "str", int |-> 0, str |-> x]
    ELSE [type |-> "NoneType", int |-> 0, str |-> ""]

\* lines 291-311
format_params_in_str_format(fs) ==
    LET names == parsed_field_names(fs)
    IN [k \in 1..Len(names) |-> to_param(names[k])]

\* lines 257-264
is_manual_format_params(params) == \A k \in 1..Len(params) : params[k].type # "NoneType"

\* lines 267-274
is_automatic_format_params(params) == \A k \in 1..Len(params) : params[k].type = "NoneType"

\* lines 277-288
is_hybrid_format_params(params) ==
    ~is_manual_format_params(params) /\ ~is_automatic_format_params(params)

\* lines 353-357: the sets of indices and of names used
args_keys(params) == {params[k].int : k \in {j \in 1..Len(params) : params[j].type = "int"}}

kwargs_keys(params) == {params[k].str : k \in {j \in 1..Len(params) : params[j].type = "str"}}

\* max(s), s not empty
max(S) == CHOOSE x \in S : \A y \in S : y <= x

\* [fill_val] * n, fill_val = None
filled(n) == [k \in 1..n |-> None]

InitFormat ==
    /\ IdleClosePairs
    /\ IdleSegment
    /\ IdleNearest
    /\ IdleWrapper
    /\ format_string \in FormatStrings
    /\ format_params = <<>>
    /\ rv_args = <<>>
    /\ rv_kwargs = <<>>
    /\ rv_error = "none"
    /\ rv_pc = "idle"

\* line 362
RvParse ==
    /\ rv_pc = "idle"
    /\ format_params' = format_params_in_str_format(format_string)
    /\ rv_pc' = "parsed"
    /\ UNCHANGED <<format_string, rv_args, rv_kwargs, rv_error, cpVars, segVars, nnVars, joVars>>

\* lines 363-368, 376: manual specification with at least one index
RvManual ==
    /\ rv_pc = "parsed"
    /\ is_manual_format_params(format_params)
    /\ IF is_hybrid_format_params(format_params_in_str_format(format_string))
       THEN /\ rv_error' = "no_hybrid_format_error"
            /\ rv_pc' = "raised"
            /\ UNCHANGED <<rv_args, rv_kwargs>>
       ELSE /\ args_keys(format_params_in_str_format(format_string)) # {}
            /\ rv_args' = filled(max(args_keys(format_params_in_str_format(format_string))) + 1)
            /\ rv_kwargs' = [k \in kwargs_keys(format_params_in_str_format(format_string)) |-> None]
            /\ rv_pc' = "returned"
            /\ UNCHANGED rv_error
    /\ UNCHANGED <<format_string, format_params, cpVars, segVars, nnVars, joVars>>

\* lines 363-366: manual specification without any index: max() of an
\* empty set raises ValueError
RvManualNoIndex ==
    /\ rv_pc = "parsed"
    /\ is_manual_format_params(format_params)
    /\ ~is_hybrid_format_params(format_params_in_str_format(format_string))
    /\ args_keys(format_params_in_str_format(format_string)) = {}
    /\ rv_error' = "max_of_empty"
    /\ rv_pc' = "raised"
    /\ UNCHANGED <<format_string, format_params, rv_args, rv_kwargs, cpVars, segVars, nnVars, joVars>>

\* lines 369-371, 376: automatic specification
RvAutomatic ==
    /\ rv_pc = "parsed"
    /\ ~is_manual_format_params(format_params)
    /\ is_automatic_format_params(format_params)
    /\ rv_args' = filled(Len(format_params))
    /\ rv_kwargs' = <<>>
    /\ rv_pc' = "returned"
    /\ UNCHANGED <<format_string, format_params, rv_error, cpVars, segVars, nnVars, joVars>>

\* lines 372-373: raise no_hybrid_format_error
RvHybrid ==
    /\ rv_pc = "parsed"
    /\ ~is_manual_format_params(format_params)
    /\ ~is_automatic_format_params(format_params)
    /\ rv_error' = "no_hybrid_format_error"
    /\ rv_pc' = "raised"
    /\ UNCHANGED <<format_string, format_params, rv_args, rv_kwargs, cpVars, segVars, nnVars, joVars>>

NextFormat ==
    \/ RvParse
    \/ RvManual
    \/ RvManualNoIndex
    \/ RvAutomatic
    \/ RvHybrid

SpecFormat == InitFormat /\ [][NextFormat]_vars

\* =================================================================
\* Properties of gen_of_close_pairs_from_iterables (SpecClosePairs)
\* =================================================================

\* C1: no position of sorted(seq_a) and no position of sorted(seq_b)
\* appears in more than one of the pairs yielded by one call.
C1_NoPositionReused ==
    \A j, k \in 1..Len(outPos) :
        j # k => /\ outPos[j][1] # outPos[k][1]
                 /\ outPos[j][2] # outPos[k][2]

\* C1 witness: a finished call that yielded two pairs after the lists
\* exchanged roles.
C1_Witness == pc = "done" /\ Len(out) >= 2 /\ inverted

\* C2 (as claimed): every yielded pair (a, b), in the caller's argument
\* order, satisfies dist_func(a, b) <= radius, for any supplied dist_func.
C2_RadiusRespected ==
    \A k \in 1..Len(out) : dist_func(distfn, out[k][1], out[k][2]) <= radius

\* C3: in every yielded pair (a, b), a is the element of sorted(seq_a) and b
\* the element of sorted(seq_b) at the positions the helper matched, so a is
\* an element of seq_a and b an element of seq_b, inverted or not.
C3_PairInArgumentOrder ==
    \A k \in 1..Len(out) :
        /\ outPos[k][1] \in 1..Len(seq_a)
        /\ outPos[k][2] \in 1..Len(seq_b)
        /\ out[k][1] = sorted(seq_a)[outPos[k][1]]
        /\ out[k][2] = sorted(seq_b)[outPos[k][2]]
        /\ out[k][1] \in Range(seq_a)
        /\ out[k][2] \in Range(seq_b)

\* C3 witness: a pair yielded with the roles exchanged whose components
\* tell the two inputs apart.
C3_Witness ==
    /\ inverted
    /\ Len(out) >= 1
    /\ out[1][1] \notin Range(seq_b)
    /\ out[1][2] \notin Range(seq_a)

\* C11: the pairs are yielded in increasing position along both inputs:
\* of two pairs yielded one after the other, the later one has a first
\* component >= and a second component >= those of the earlier one.
C11_PairsInIncreasingOrder ==
    \A k \in 1..(Len(out) - 1) :
        /\ out[k + 1][1] >= out[k][1]
        /\ out[k + 1][2] >= out[k][2]

\* C11 witness: two pairs yielded from inputs given in decreasing order,
\* both components growing.
C11_Witness ==
    /\ Len(out) >= 2
    /\ out[2][1] > out[1][1]
    /\ out[2][2] > out[1][2]
    /\ seq_a # sorted(seq_a)
    /\ seq_b # sorted(seq_b)

\* the list s and the lists got from s by exchanging two neighbours; every
\* rearrangement of s is reached from s by a chain of such exchanges
NeighbourSwaps(s) ==
    {s} \cup {[k \in 1..Len(s) |-> IF k = j THEN s[j + 1] ELSE IF k = j + 1 THEN s[j] ELSE s[k]] :
                j \in 1..(Len(s) - 1)}

\* C12: the pairs a call yields do not depend on the order of the elements
\* of its inputs: called with seq_a and seq_b, or with two neighbouring
\* elements of seq_a and / or of seq_b exchanged, the generator yields the
\* very sequence of pairs this call has yielded.  As this holds for every
\* input, it holds along every chain of exchanges, hence for every
\* rearrangement of the two inputs.
C12_InputOrderIrrelevant ==
    pc = "done" =>
        \A p \in NeighbourSwaps(seq_a), q \in NeighbourSwaps(seq_b) :
            gen_of_close_pairs_from_iterables(p, q, radius, distfn) = out

\* C12 witness: a finished call on two unsorted inputs that yielded pairs.
C12_Witness ==
    /\ pc = "done"
    /\ Len(out) >= 2
    /\ seq_a # sorted(seq_a)
    /\ seq_b # sorted(seq_b)

\* C13 (as claimed): a call with a negative radius is rejected: the
\* generator raises instead of entering the helper.
C13_NegativeRadiusRejected == (radius < 0 /\ pc # "idle") => pc = "raised"

\* C4 (as claimed): the generator stops only when one of the lists has
\* become empty or a scan ended without a match; in particular it does not
\* stop because, after a match, the front of the scanning list is greater
\* than the front of the other list (the roles are exchanged instead).
C4_StopsOnlyWhenEmptyOrNoMatch ==
    pc = "done" => (Len(it1) = 0 \/ Len(it2) = 0 \/ x1 = None)

\* =================================================================
\* Properties of sublist_that_contains_segment (SpecSegment)
\* =================================================================
\* the key values of the markers, in input order
MarkerVals == [k \in 1..Len(sorted_segment_mins) |-> x_to_val(key, sorted_segment_mins[k])]

MarkersSorted == \A k \in 2..Len(sorted_segment_mins) : MarkerVals[k - 1] <= MarkerVals[k]

MarkersStrictlySorted == \A k \in 2..Len(sorted_segment_mins) : MarkerVals[k - 1] < MarkerVals[k]

KeysOf(list) == {x_to_val(key, list[j]) : j \in 1..Len(list)}

\* the points of [from_val, to_val]
Interval == {p \in (-inf)..inf : from_val <= p /\ p <= to_val}

HasSegment(p) == \E v \in Range(MarkerVals) : v <= p

\* the start of the segment that contains p: the greatest marker <= p
SegmentStart(p) ==
    CHOOSE v \in Range(MarkerVals) :
        v <= p /\ \A w \in Range(MarkerVals) : w <= p => w <= v

\* list covers [from_val, to_val]: it holds the start of the segment of each point
Covers(list) == \A p \in Interval : HasSegment(p) => SegmentStart(p) \in KeysOf(list)

Front(list) == SubSeq(list, 1, Len(list) - 1)

SegFinished == seg_pc \in {"returned", "raised"}

\* the scan reaches marker k: no earlier marker made the loop break
ReachedByScan(k) ==
    \A j \in 1..(k - 1) : ~(MarkerVals[j] >= from_val /\ MarkerVals[j] > to_val)

\* C5 (as claimed): the sortedness error is raised exactly for the marker
\* sequences that are not non-decreasing.
C5_RaisesIffUnsorted == SegFinished => (seg_pc = "raised" <=> ~MarkersSorted)

\* C5 (amended): the sortedness error is raised exactly when some marker is
\* smaller than its predecessor and no marker before it is both >= from_val
\* and > to_val (the scan stops at such a marker); it is never raised for a
\* non-decreasing sequence.
C5_RaisesIffDecreaseBeforeBreak ==
    SegFinished =>
        (seg_pc = "raised" <=>
            \E k \in 2..Len(sorted_segment_mins) :
                MarkerVals[k] < MarkerVals[k - 1] /\ ReachedByScan(k))

\* C5 witness: the error raised at the third marker.
C5_Witness == seg_pc = "raised" /\ nxt = 3

\* C6: for sorted markers, from_val <= to_val and a marker <= from_val, the
\* result holds, for every point of [from_val, to_val], the greatest marker
\* that is <= that point.
C6_ResultCovers ==
    (/\ seg_pc = "returned"
     /\ MarkersSorted
     /\ from_val <= to_val
     /\ HasSegment(from_val))
        => \A p \in Interval : SegmentStart(p) \in KeysOf(sublist)

\* C6 witness: a result made of the predecessor of from_val and a marker
\* inside the interval.
C6_Witness ==
    /\ seg_pc = "returned"
    /\ MarkersSorted
    /\ from_val < to_val
    /\ Len(sublist) >= 2
    /\ x_to_val(key, sublist[1]) < from_val

C9_NoneAboveTo ==
    (seg_pc = "returned" /\ MarkersSorted)
        => \A j \in 1..Len(sublist) : x_to_val(key, sublist[j]) <= to_val

\* C9 (amended): for sorted markers, every element of the result has a key
\* <= to_val, except that when from_val > to_val the first element may be
\* a marker < from_val whose key is greater than to_val.
C9_NoneAboveToUnlessBelowFrom ==
    (seg_pc = "returned" /\ MarkersSorted)
        => \A j \in 1..Len(sublist) :
              \/ x_to_val(key, sublist[j]) <= to_val
              \/ (j = 1 /\ to_val < from_val /\ x_to_val(key, sublist[j]) < from_val)

\* C9 witness: from_val <= to_val, and the marker sequence goes on past
\* to_val.
C9_Witness ==
    /\ seg_pc = "returned"
    /\ MarkersSorted
    /\ from_val <= to_val
    /\ Len(sublist) >= 2
    /\ nxt > Len(sublist)
    /\ MarkerVals[nxt] > to_val

\* C10 (as claimed): when a marker < from_val and a marker > to_val exist,
\* the result starts at the largest marker < from_val and ends with the
\* smallest marker > to_val.
C10_RangesToFirstMarkerAboveTo ==
    (/\ seg_pc = "returned"
     /\ MarkersSorted
     /\ from_val <= to_val
     /\ \E v \in Range(MarkerVals) : v < from_val
     /\ \E v \in Range(MarkerVals) : v > to_val)
        => /\ sublist # <<>>
           /\ LET first == x_to_val(key, sublist[1])
                  last == x_to_val(key, sublist[Len(sublist)])
              IN /\ first < from_val
                 /\ \A v \in Range(MarkerVals) : v < from_val => v <= first
                 /\ last > to_val
                 /\ \A v \in Range(MarkerVals) : v > to_val => last <= v

\* =================================================================
\* Properties of both selection functions (SpecSelection)
\* =================================================================

\* C14: a call of gen_of_close_pairs_from_iterables with an empty seq_a or
\* an empty seq_b ends without an error and without having yielded a pair,
\* and a call of sublist_that_contains_segment on no marker returns the
\* empty list and raises nothing, whatever radius, from_val and to_val are.
C14_EmptyInputsGiveEmptyResults ==
    /\ (pc \in {"done", "raised"} /\ (seq_a = <<>> \/ seq_b = <<>>))
          => (pc = "done" /\ out = <<>>)
    /\ (SegFinished /\ sorted_segment_mins = <<>>)
          => (seg_pc = "returned" /\ sublist = <<>>)

\* C14 witness: both functions have run on empty input: an empty seq_a
\* against a non-empty seq_b, and an empty marker sequence.
C14_Witness ==
    /\ pc = "done"
    /\ seq_a = <<>>
    /\ seq_b # <<>>
    /\ seg_pc = "returned"
    /\ sorted_segment_mins = <<>>

NNFinished == nn_pc \in {"done", "raised"}

\* the reference points: those given, or those the index given was fitted on
RefPts == match_arg.pts

\* reference r is a nearest reference point of query k
IsNearestRef(k, r) ==
    \A c \in 1..Len(RefPts) :
        PointDist(query_pts[k], RefPts[r]) <= PointDist(query_pts[k], RefPts[c])

\* the positions of the query points whose nearest reference point is within radius
Qualifying ==
    {k \in 1..Len(query_pts) :
        \E r \in 1..Len(RefPts) : PointDist(query_pts[k], RefPts[r]) <= nn_radius}

KthSmallest(S, n) == CHOOSE x \in S : Cardinality({y \in S : y < x}) = n - 1

\* the j-th yielded pair is made of the j-th qualifying query point and of a
\* nearest reference point of it: their 0-based positions in index mode,
\* the points themselves in value mode
PairIsNearestMatch(j) ==
    /\ j <= Cardinality(Qualifying)
    /\ LET k == KthSmallest(Qualifying, j)
       IN IF yield_indices_only
          THEN /\ nn_out[j][1] = k - 1
               /\ nn_out[j][2] + 1 \in 1..Len(RefPts)
               /\ IsNearestRef(k, nn_out[j][2] + 1)
          ELSE /\ nn_out[j][1] = query_pts[k]
               /\ \E r \in 1..Len(RefPts) : IsNearestRef(k, r) /\ nn_out[j][2] = RefPts[r]

\* C15 (as claimed): a call yields exactly the query points whose nearest
\* reference point is within radius, each with that nearest reference point,
\* in the order of query_pts.
C15_YieldsExactlyTheMatches ==
    NNFinished =>
        /\ Len(nn_out) = Cardinality(Qualifying)
        /\ \A j \in 1..Len(nn_out) : PairIsNearestMatch(j)

\* C15 for a second argument that is an array-like of points: the claim
\* holds of every call that is given the reference points themselves.
NearestMatchesOfPointArrays ==
    (nn_pc = "done" /\ match_arg.kind = "points") =>
        /\ Len(nn_out) = Cardinality(Qualifying)
        /\ \A j \in 1..Len(nn_out) : PairIsNearestMatch(j)

\* C16 (as claimed): given an already built search structure, the call
\* answers the queries with it and builds no new one.
C16_GivenIndexUsedAsIs ==
    (match_arg.kind = "index" /\ nn_pc # "idle") =>
        /\ n_built = 0
        /\ nn_pc # "raised"
        /\ nn = match_arg.pts

\* C17: in index mode every yielded pair is (query_index, reference_index),
\* query_index the position in query_pts of the query point (not its rank
\* among the matched ones) and reference_index the position of its nearest
\* reference point; in value mode it is the pair of the points at these
\* positions.
C17_PairsByOriginalPosition == \A j \in 1..Len(nn_out) : PairIsNearestMatch(j)

\* C17 witness: index mode, and the first pair yielded is not for the
\* first query point.
C17_Witness ==
    /\ yield_indices_only
    /\ Len(nn_out) >= 1
    /\ nn_out[1][1] >= 1

\* the query point / the reference point of the j-th yielded pair
YieldedQuery(j) == IF yield_indices_only THEN query_pts[nn_out[j][1] + 1] ELSE nn_out[j][1]
YieldedRef(j) == IF yield_indices_only THEN RefPts[nn_out[j][2] + 1] ELSE nn_out[j][2]

\* C18: a reference point stays available after it has been matched: the
\* reference point of a yielded pair is at least as near to its query point
\* as the reference point of any pair yielded before (so two query points
\* can be paired with one reference point).
C18_MatchedReferenceStaysAvailable ==
    \A j, k \in 1..Len(nn_out) :
        j < k => PointDist(YieldedQuery(k), YieldedRef(k)) <= PointDist(YieldedQuery(k), YieldedRef(j))

\* C18 witness: two different query points paired with the same reference
\* point, another reference point being there.
C18_Witness ==
    /\ yield_indices_only
    /\ Len(RefPts) >= 2
    /\ Len(nn_out) >= 2
    /\ nn_out[1][1] # nn_out[2][1]
    /\ nn_out[1][2] = nn_out[2][2]

\* C19 (as claimed): a call with an empty query set or an empty reference
\* set (given as an array-like) ends without an error, nothing yielded.
C19_EmptySetsGiveEmptySequence ==
    (/\ NNFinished
     /\ match_arg.kind = "points"
     /\ (query_pts = <<>> \/ RefPts = <<>>))
        => (nn_pc = "done" /\ nn_out = <<>>)

\* =================================================================
\* Further properties of gen_of_close_pairs_from_iterables (SpecClosePairs)
\* =================================================================
\* the pairs of s with their two components exchanged, in the same order
Mirror(s) == [k \in 1..Len(s) |-> <<s[k][2], s[k][1]>>]

\* C21 (as claimed): with the absolute-difference distance, the call with
\* the two arguments exchanged yields the pairs of this call with their
\* components exchanged, in the same order.
C21_ExchangedArgumentsMirror ==
    (pc = "done" /\ distfn = "abs")
        => gen_of_close_pairs_from_iterables(seq_b, seq_a, radius, distfn) = Mirror(out)

\* the position, in the sorted scanned list Orig1 / in the sorted target list
\* Orig2, of the element the k-th yielded pair took from it
ScanPos(k) == IF inverted THEN outPos[k][2] ELSE outPos[k][1]
TargetPos(k) == IF inverted THEN outPos[k][1] ELSE outPos[k][2]

\* the j-th scanned element may be paired with the q-th target
Fits(j, q) == Orig1[j] <= Orig2[q] /\ dist_func(distfn, Orig1[j], Orig2[q]) <= radius

\* where the scan for the k-th pair started: after the element of pair k - 1
ScanStart(k) == IF k = 1 THEN 1 ELSE ScanPos(k - 1) + 1

\* C23: matching is first-fit: the scanned element of every yielded pair is
\* the earliest remaining element y of the scanned list with y <= target
\* and dist_func(y, target) <= radius, whatever comes after it, and the
\* scanned list that remains starts right after the y of the last pair.
C23_FirstFit ==
    \A k \in 1..Len(out) :
        /\ ScanPos(k) >= ScanStart(k)
        /\ Fits(ScanPos(k), TargetPos(k))
        /\ \A j \in ScanStart(k)..(ScanPos(k) - 1) : ~Fits(j, TargetPos(k))
        /\ k = Len(out) => it1 = SubSeq(Orig1, ScanPos(k) + 1, Len(Orig1))

\* C23 witness: a pair whose scanned element was reached past an element
\* that did not fit, while an element that remains after it is nearer to
\* the target.
C23_Witness ==
    /\ distfn = "abs"
    /\ Len(out) = 1
    /\ ScanPos(1) >= 2
    /\ \E j \in (ScanPos(1) + 1)..Len(Orig1) :
          dist_func("abs", Orig1[j], Orig2[TargetPos(1)])
              < dist_func("abs", Orig1[ScanPos(1)], Orig2[TargetPos(1)])

\* the last scan ended at an element greater than its target without having
\* found an element within radius: it returned (i, None)
Overshot == i # None /\ x1 = None

\* C24: a scan overshoot ends the call for good: once a scan has reached an
\* element greater than its target without a match, the generator is
\* finished (no step follows) and the pairs yielded are those of the
\* targets before that one, whatever the two lists still hold.
C24_OvershootEndsTheCall ==
    Overshot => (pc = "done" /\ Len(out) = Len(Orig2) - Len(it2))

\* C24 witness: a call ended by an overshoot although the elements not yet
\* consumed hold two elements within radius of each other.
C24_Witness ==
    /\ Overshot
    /\ pc = "done"
    /\ distfn = "abs"
    /\ \E j \in 1..Len(it1), k \in 1..Len(it2) : dist_func(distfn, it1[j], it2[k]) <= radius

\* min(s), s not empty
MinOf(s) == CHOOSE x \in Range(s) : \A y \in Range(s) : x <= y

\* C26: the two lists exchange roles at most once in a call, and only
\* before the first pair is yielded: the helper is never nested deeper than
\* one recursive call, the roles are decided while nothing has been yielded,
\* and all pairs (a, b) of the call have a <= b when min(seq_a) <= min(seq_b)
\* and b <= a when min(seq_a) > min(seq_b).
C26_RolesExchangedAtMostOnce ==
    /\ depth <= 2
    /\ depth = 2 <=> inverted
    /\ pc = "entry" => out = <<>>
    /\ out # <<>> =>
          /\ inverted <=> MinOf(seq_a) > MinOf(seq_b)
          /\ \A k \in 1..Len(out) :
                IF MinOf(seq_a) <= MinOf(seq_b) THEN out[k][1] <= out[k][2]
                ELSE out[k][2] <= out[k][1]

\* C26 witness: a call that exchanged the roles, yielded a pair with b < a
\* and ended with the front of the scanned list greater than the front of
\* the target list (where a second exchange would take place).
C26_Witness ==
    /\ pc = "done"
    /\ depth = 2
    /\ Len(out) >= 1
    /\ out[1][2] < out[1][1]
    /\ it1 # <<>> /\ it2 # <<>>
    /\ it1[1] > it2[1]

\* the sorted input that is not scanned: seq_b when min(seq_a) <= min(seq_b),
\* seq_a otherwise
TargetList == IF MinOf(seq_a) <= MinOf(seq_b) THEN sorted(seq_b) ELSE sorted(seq_a)

\* the component of a yielded pair that comes from the target list
TargetOf(pair) == IF MinOf(seq_a) <= MinOf(seq_b) THEN pair[2] ELSE pair[1]

\* C27: the elements of the target list are consumed one after the other,
\* none skipped: the k-th yielded pair holds the k-th smallest element of
\* the target list, so the target components of the pairs yielded are a
\* prefix of the sorted target list.
C27_TargetsConsumedInSequence ==
    out # <<>> =>
        /\ Len(out) <= Len(TargetList)
        /\ \A k \in 1..Len(out) :
              /\ TargetOf(out[k]) = TargetList[k]
              /\ TargetPos(k) = k

\* C27 witness: two pairs yielded whose target elements differ, the scanned
\* list having lost an element in between.
C27_Witness ==
    /\ Len(out) = 2
    /\ TargetOf(out[1]) < TargetOf(out[2])
    /\ ScanPos(2) > ScanPos(1) + 1

\* C28: a call on finite inputs terminates: the generator is exhausted
\* after finitely many steps, every iteration of the matching loop either
\* ends the generator or removes at least one element from each of the two
\* lists, and at most min(len(seq_a), len(seq_b)) pairs are yielded.
C28_Terminates ==
    /\ (pc # "idle") ~> (pc = "done")
    /\ [][pc = "loop" => \/ pc' = "done"
                          \/ (Len(it1') < Len(it1) /\ Len(it2') < Len(it2))]_vars
    /\ [](Len(out) <= (IF Len(seq_a) <= Len(seq_b) THEN Len(seq_a) ELSE Len(seq_b)))

\* C28 witness: a finished call that yielded as many pairs as its inputs
\* have elements, more than one.
C28_Witness ==
    /\ pc = "done"
    /\ Len(out) = 2
    /\ Len(seq_a) = 2
    /\ Len(seq_b) = 2

\* =================================================================
\* Further properties of sublist_that_contains_segment (SpecSegment)
\* =================================================================
\* the positions of the markers with a key < from_val / with a key <= to_val
BeforeFrom == {k \in 1..Len(sorted_segment_mins) : MarkerVals[k] < from_val}
UpToTo == {k \in 1..Len(sorted_segment_mins) : MarkerVals[k] <= to_val}

Greatest(S) == CHOOSE k \in S : \A j \in S : j <= k

\* the slice of the markers from the last one with a key < from_val (from
\* the first marker when there is none) to the last one with a key <= to_val
CoveringSlice ==
    SubSeq(sorted_segment_mins,
           IF BeforeFrom = {} THEN 1 ELSE Greatest(BeforeFrom),
           IF UpToTo = {} THEN 0 ELSE Greatest(UpToTo))

RequestTaken == jo_pc # "idle" \/ n_served >= 1

\* C22: for a request without 'attr', or with an 'attr' the wrapper's
\* pattern does not match, robj ends with MissingAttribute /
\* ForbiddenAttribute, and until then the constructor has not been called,
\* the constructor cache is as it was when the request came in, and no
\* attribute of the object has been read or called.
C22_AttrCheckedBeforeObjectIsTouched ==
    (/\ RequestTaken
     /\ (~request.has_attr \/ ~re_match(permissible_attr_pattern, request.attr)))
        => /\ n_constructed = 0
           /\ obj_cache = cache_at_request
           /\ attrs_read = <<>>
           /\ n_called = 0
           /\ jo_pc \in {"robj", "idle"}
           /\ jo_pc = "idle" =>
                 jo_outcome = (IF request.has_attr THEN "ForbiddenAttribute" ELSE "MissingAttribute")

\* C22 witness: a request refused with ForbiddenAttribute by a wrapper
\* whose cache holds an object constructed for an earlier request.
C22_Witness ==
    /\ jo_pc = "idle"
    /\ jo_outcome = "ForbiddenAttribute"
    /\ obj_cache # <<>>

StartsWithUnderscore(name) == Len(name) >= 1 /\ name[1] = "_"

\* C29 (as claimed): with the default pattern '[^_].*', no name that starts
\* with an underscore is ever passed to getattr, and a request whose attr
\* has such a component, at whatever position, ends with ForbiddenAttribute.
C29_NoUnderscoreComponentReached ==
    permissible_attr_pattern = "[^_].*" =>
        /\ \A k \in 1..Len(attrs_read) : ~StartsWithUnderscore(attrs_read[k])
        /\ (/\ jo_pc = "idle"
            /\ n_served >= 1
            /\ request.has_attr
            /\ \E k \in 1..Len(split(request.attr)) : StartsWithUnderscore(split(request.attr)[k]))
               => jo_outcome = "ForbiddenAttribute"

\* =================================================================
\* Properties of empty_arg_and_kwargs_for_format (SpecFormat)
\* =================================================================
\* the field names of the fields of the format string
FieldsOf(fs) == {fs[k].field_name : k \in {j \in 1..Len(fs) : ~fs[j].text}}

\* a hybrid format string: it has an unnumbered field {} and a numbered or
\* named one
IsHybrid(fs) == "" \in FieldsOf(fs) /\ FieldsOf(fs) # {""}

\* C30 (as claimed): the call raises, and then no_hybrid_format_error,
\* exactly for the hybrid format strings; for every other format string it
\* returns args with one slot per automatic field, or max index + 1 slots,
\* and kwargs with one key per named field.
C30_RaisesExactlyForHybrid ==
    rv_pc \in {"returned", "raised"} =>
        /\ rv_pc = "raised" <=> IsHybrid(format_string)
        /\ rv_pc = "raised" => rv_error = "no_hybrid_format_error"
        /\ rv_pc = "returned" =>
              /\ DOMAIN rv_kwargs = FieldsOf(format_string) \cap {"x", "y"}
              /\ Len(rv_args) =
                    IF "" \in FieldsOf(format_string)
                    THEN Cardinality({j \in 1..Len(format_string) : ~format_string[j].text})
                    ELSE IF "1" \in FieldsOf(format_string) THEN 2
                    ELSE IF "0" \in FieldsOf(format_string) THEN 1
                    ELSE 0

====
